---- MODULE Spec2Model ----
(***************************************************************************)
(* Technician dispatch service (src/app.py): the dispatch_one handler, the *)
(* get_distance_km resolver with its tenacity retry policy, and the three  *)
(* tables of the store.  Each dispatch call is a coroutine; an action is   *)
(* the code between two awaits.                                            *)
(***************************************************************************)
EXTENDS Integers, Sequences, FiniteSets, TLC

(* ------------------------------ bounds -------------------------------- *)
\* dispatch requests in progress at once (SpecCalls)
MaxCalls == 2
\* rows of public.technicians (Spec)
MaxTechs == 2
\* finite road distances the routing service may report, in km
MaxDist == 2
\* rows of public.technicians (SpecShortlist)
MaxRows == 6

(* ------------------------- program constants -------------------------- *)
\* float("inf"): larger than every finite distance of the model
Inf == 1000000
\* Python's None for best_id; technician ids are SERIAL, hence >= 1
None == 0
TOP_K == 5

Calls == 1..MaxCalls
\* longitudes (degrees, on the equator) of the technicians; the customer is at 0
Lons == {1, 2}
\* customer ids a request may carry; id 1 has a row, id 2 has none
CustIds == {1, 2}

VARIABLES
  customers,     \* public.customers: customerid -> [latitude, longitude]
  technicians,   \* public.technicians: technicianid -> [latitude, longitude, is_active]
  assignments,   \* public.assignments: sequence of rows, in insertion order
  id_seq,        \* last value of the SERIAL sequence of assignments.id
  now,           \* the store's clock, now()
  pc,            \* per call: where the coroutine dispatch_one stands
  cust_id,       \* per call: the path parameter
  customer,      \* per call: the fetched customer row (<<>> before the read)
  tech_rows,     \* per call: the fetched active technician rows
  shortlist,     \* per call: candidates[:TOP_K]
  tasks,         \* per call: one asyncio task per shortlisted candidate
  best_id,       \* per call
  best_dist,     \* per call
  conns,         \* per call: pool connections currently held
  response       \* per call: what the handler returned or raised (<<>> while running)

vars == <<customers, technicians, assignments, id_seq, now, pc, cust_id, customer,
          tech_rows, shortlist, tasks, best_id, best_dist, conns, response>>

store == <<customers, technicians, assignments, id_seq, now>>

(* ------------------------------ helpers ------------------------------- *)
Abs(x) == IF x < 0 THEN -x ELSE x
Min(a, b) == IF a < b THEN a ELSE b

\* haversine_km on the equator (lat1 = lat2 = 0), where the formula reduces to
\* R * |dlambda|: 6371 * pi / 180 = 111.1949 km per degree, truncated to km.
haversine_km(lat1, lon1, lat2, lon2) ==
  (1111949 * Abs(lon2 - lon1)) \div 10000

RECURSIVE Perms(_)
\* the orders in which a query without ORDER BY may return the rows S
Perms(S) ==
  IF S = {} THEN {<<>>}
  ELSE UNION {{<<x>> \o p : p \in Perms(S \ {x})} : x \in S}

\* list.sort(key=lambda x: x[0]) is stable: insert c after every element
\* whose key is <= its own.
RECURSIVE InsertByEst(_, _)
InsertByEst(c, s) ==
  IF s = <<>> THEN <<c>>
  ELSE IF c.est < Head(s).est THEN <<c>> \o s
  ELSE <<Head(s)>> \o InsertByEst(c, Tail(s))

RECURSIVE SortByEst(_)
SortByEst(s) ==
  IF s = <<>> THEN <<>>
  ELSE InsertByEst(s[Len(s)], SortByEst(SubSeq(s, 1, Len(s) - 1)))

\* lines 130-134: one candidate tuple per fetched row
Candidates(cust, rows) ==
  [i \in 1..Len(rows) |->
     [est     |-> haversine_km(cust.latitude, cust.longitude,
                               rows[i].latitude, rows[i].longitude),
      tech_id |-> rows[i].technicianid,
      tlat    |-> rows[i].latitude,
      tlon    |-> rows[i].longitude]]

\* mutant: the first TOP_K rows are taken before the sort instead of after
Shortlist_CutFirst(cust, rows) ==
  SortByEst(SubSeq(Candidates(cust, rows), 1, Min(TOP_K, Len(rows))))

\* mutant: the sorted candidates are not cut to TOP_K
Shortlist_NoCut(cust, rows) == SortByEst(Candidates(cust, rows))

\* lines 135-136
Shortlist(cust, rows) ==
  LET sorted == SortByEst(Candidates(cust, rows))
  IN  SubSeq(sorted, 1, Min(TOP_K, Len(sorted)))

\* mutant: the query without its WHERE clause returns the first customer row
FetchCustomer_AnyRow(id) == <<customers[CHOOSE i \in DOMAIN customers : TRUE]>>

\* fetchrow("SELECT ... FROM public.customers WHERE customerid = $1", id):
\* the row, or no row (None)
FetchCustomer(id) == IF id \in DOMAIN customers THEN <<customers[id]>> ELSE <<>>

\* mutant: the query without its is_active filter
ActiveIds_All == DOMAIN technicians

\* the rows of SELECT ... WHERE is_active = TRUE, in the order rows lists the ids
ActiveIds == {t \in DOMAIN technicians : technicians[t].is_active}
RowsOf(order) ==
  [i \in 1..Len(order) |->
     [technicianid |-> order[i],
      latitude     |-> technicians[order[i]].latitude,
      longitude    |-> technicians[order[i]].longitude]]

(* ----------------------- the routing resolver ------------------------- *)
\* distances in metres the routing service may put in summary.distance; a JSON
\* number beyond the double range (1e999) is parsed by resp.json() as inf
Meters == {1000 * k : k \in 1..MaxDist} \cup {Inf}

\* what one client.get may come back with: an httpx exception (transport
\* error or the 15 s timeout), or a response with a status and a body
Responses ==
  {[exc |-> e, status_code |-> 0, features |-> <<>>] :
      e \in {"ConnectError", "ReadTimeout"}}
  \cup {[exc |-> "", status_code |-> 429, features |-> <<>>]}
  \cup {[exc |-> "", status_code |-> 200, features |-> <<>>]}
  \cup {[exc |-> "", status_code |-> 200,
         features |-> <<[has_distance |-> FALSE, distance |-> 0]>>]}
  \cup {[exc |-> "", status_code |-> 200,
         features |-> <<[has_distance |-> TRUE, distance |-> m]>>] : m \in Meters}

\* float(distance_m) / 1000.0; the model's finite distances are whole km
ToKm(distance_m) == IF distance_m = Inf THEN Inf ELSE distance_m \div 1000

\* one execution of the body of get_distance_km on the response resp
Attempt(resp) ==
  IF resp.exc # "" THEN [raised |-> TRUE, value |-> 0]
  ELSE IF resp.status_code >= 400 THEN [raised |-> TRUE, value |-> 0]
  ELSE IF resp.features = <<>> THEN [raised |-> TRUE, value |-> 0]
  ELSE IF ~resp.features[1].has_distance THEN [raised |-> TRUE, value |-> 0]
  ELSE [raised |-> FALSE, value |-> ToKm(resp.features[1].distance)]

\* mutant: one attempt too many
StopAfterAttempt_Four(attempt_number) == attempt_number >= 4

\* stop_after_attempt(3)
StopAfterAttempt(attempt_number) == attempt_number >= 3

\* wait_exponential(min=1, max=10): multiplier 1, base 2
WaitExponential(attempt_number) ==
  LET exp == 2 ^ (attempt_number - 1)
      low == IF exp < 10 THEN exp ELSE 10
  IN  IF low > 1 THEN low ELSE 1

\* asyncio.create_task(get_distance_km(...)): not yet run
NewTask == [st |-> "ready", attempt_number |-> 0, wait |-> 0, result |-> 0]

\* mutant: a task that ended with an exception does not count as done
Completed_OnlyReturned(t) == t.st = "returned"

\* a done task: it returned or raised
Completed(t) == t.st \in {"returned", "raised"}

\* mutant: return_when=FIRST_COMPLETED
WaitReturns_FirstCompleted(ts) == \E i \in 1..Len(ts) : Completed(ts[i])

\* asyncio.wait(tasks, return_when=ALL_COMPLETED) returns
WaitReturns(ts) == \A i \in 1..Len(ts) : Completed(ts[i])

\* lines 141-151: the loop over enumerate(tasks), from position idx on
RECURSIVE PickFrom(_, _, _, _, _)
PickFrom(ts, sl, idx, bid, bdist) ==
  IF idx > Len(ts) THEN [best_id |-> bid, best_dist |-> bdist]
  ELSE IF ts[idx].st # "returned" THEN PickFrom(ts, sl, idx + 1, bid, bdist)
  ELSE IF ts[idx].result < bdist
       THEN PickFrom(ts, sl, idx + 1, sl[idx].tech_id, ts[idx].result)
       ELSE PickFrom(ts, sl, idx + 1, bid, bdist)

\* mutant: best_id starts as the first candidate instead of None
Pick_FirstCandidate(ts, sl) == PickFrom(ts, sl, 1, sl[1].tech_id, Inf)

\* mutant: the distances are matched to the candidates in the reverse order
Pick_Misattributed(ts, sl) ==
  PickFrom(ts, [i \in 1..Len(sl) |-> sl[Len(sl) + 1 - i]], 1, None, Inf)

\* mutant: the position in the shortlist is taken for the technician's id
Pick_Position(ts, sl) ==
  PickFrom(ts, [i \in 1..Len(sl) |-> [tech_id |-> i, est |-> sl[i].est]], 1, None, Inf)

\* lines 141-142 and the loop
Pick(ts, sl) == PickFrom(ts, sl, 1, None, Inf)

(* ----------------------------- responses ------------------------------ *)
Raise(k, code, msg) == [kind |-> k, status_code |-> code, detail |-> msg, body |-> <<>>]
\* line 121
CustomerNotFound == Raise("CustomerNotFound", 404, "Customer not found")
\* mutant: the empty technician set is answered with the status of line 121
NoTechniciansAvailable_As404 ==
  Raise("NoTechniciansAvailable", 404, "No technicians available")

\* line 127
NoTechniciansAvailable == Raise("NoTechniciansAvailable", 503, "No technicians available")
\* mutant: the exception of a failed task leaves the handler uncaught
RoutingFailure_Escapes == Raise("RoutingFailure", 500, "Internal Server Error")

\* line 154
NoResolvableTechnician ==
  Raise("NoResolvableTechnician", 503, "Unable to compute driving distances at this time")
\* an asyncpg exception leaves dispatch_one uncaught: FastAPI answers 500
StoreReadFailure == Raise("StoreReadFailure", 500, "Internal Server Error")
PersistenceFailure == Raise("PersistenceFailure", 500, "Internal Server Error")
Assignment(row) == [kind |-> "Assignment", status_code |-> 200, detail |-> "", body |-> <<row>>]

(* ------------------------------- Init --------------------------------- *)
\* n requests are going to arrive
InitCalls(n) ==
  /\ pc = [c \in Calls |-> IF c <= n THEN "idle" ELSE "unused"]
  /\ cust_id = [c \in Calls |-> 0]
  /\ customer = [c \in Calls |-> <<>>]
  /\ tech_rows = [c \in Calls |-> <<>>]
  /\ shortlist = [c \in Calls |-> <<>>]
  /\ tasks = [c \in Calls |-> <<>>]
  /\ best_id = [c \in Calls |-> None]
  /\ best_dist = [c \in Calls |-> Inf]
  /\ conns = [c \in Calls |-> 0]
  /\ response = [c \in Calls |-> <<>>]

InitStore ==
  /\ customers = [i \in {1} |-> [latitude |-> 0, longitude |-> 0]]
  /\ assignments = <<>>
  /\ id_seq = 0
  /\ now = 0

TechRow == [latitude : {0}, longitude : Lons, is_active : BOOLEAN]

\* one dispatch call, any table of MaxTechs technicians
Init ==
  /\ InitStore
  /\ technicians \in [1..MaxTechs -> TechRow]
  /\ InitCalls(1)

\* MaxCalls dispatch calls, one active technician
InitManyCalls ==
  /\ InitStore
  /\ technicians = [i \in {1} |-> [latitude |-> 0, longitude |-> 1, is_active |-> TRUE]]
  /\ InitCalls(MaxCalls)

\* one dispatch call, any table of up to MaxRows active technicians
InitShortlist ==
  /\ InitStore
  /\ \E n \in 0..MaxRows :
       technicians \in [1..n -> [latitude : {0}, longitude : Lons, is_active : {TRUE}]]
  /\ InitCalls(1)

(* ------------------------------ actions ------------------------------- *)
\* a request POST /dispatch/{id} arrives; the handler acquires a connection
\* for the customer lookup (lines 116-118)
DispatchOne(c, id) ==
  /\ pc[c] = "idle"
  /\ pc' = [pc EXCEPT ![c] = "lookup"]
  /\ cust_id' = [cust_id EXCEPT ![c] = id]
  /\ conns' = [conns EXCEPT ![c] = conns[c] + 1]
  /\ UNCHANGED <<store, customer, tech_rows, shortlist, tasks, best_id, best_dist, response>>

\* the handler ends: it returns or raises r
Finish(c, r) ==
  /\ pc' = [pc EXCEPT ![c] = "done"]
  /\ response' = [response EXCEPT ![c] = r]

\* mutant: the active technicians are looked at before the customer row
Lookup_TechsFirst(c) ==
  /\ pc[c] = "lookup"
  /\ conns' = [conns EXCEPT ![c] = conns[c] - 1]
  /\ \/ /\ Finish(c, StoreReadFailure)
        /\ UNCHANGED customer
     \/ /\ ActiveIds = {}
        /\ Finish(c, NoTechniciansAvailable)
        /\ UNCHANGED customer
     \/ /\ ActiveIds # {}
        /\ FetchCustomer(cust_id[c]) = <<>>
        /\ Finish(c, CustomerNotFound)
        /\ UNCHANGED customer
     \/ /\ ActiveIds # {}
        /\ FetchCustomer(cust_id[c]) # <<>>
        /\ customer' = [customer EXCEPT ![c] = FetchCustomer(cust_id[c])]
        /\ pc' = [pc EXCEPT ![c] = "found"]
        /\ UNCHANGED response
  /\ UNCHANGED <<store, cust_id, tech_rows, shortlist, tasks, best_id, best_dist>>

\* lines 119-122: fetchrow, release of the connection, the 404
Lookup(c) ==
  /\ pc[c] = "lookup"
  /\ conns' = [conns EXCEPT ![c] = conns[c] - 1]
  /\ \/ /\ Finish(c, StoreReadFailure)
        /\ UNCHANGED customer
     \/ /\ FetchCustomer(cust_id[c]) = <<>>
        /\ Finish(c, CustomerNotFound)
        /\ UNCHANGED customer
     \/ /\ FetchCustomer(cust_id[c]) # <<>>
        /\ customer' = [customer EXCEPT ![c] = FetchCustomer(cust_id[c])]
        /\ pc' = [pc EXCEPT ![c] = "found"]
        /\ UNCHANGED response
  /\ UNCHANGED <<store, cust_id, tech_rows, shortlist, tasks, best_id, best_dist>>

\* line 124: the second pool.acquire()
AcquireForTechs(c) ==
  /\ pc[c] = "found"
  /\ pc' = [pc EXCEPT ![c] = "techs"]
  /\ conns' = [conns EXCEPT ![c] = conns[c] + 1]
  /\ UNCHANGED <<store, cust_id, customer, tech_rows, shortlist, tasks, best_id,
                 best_dist, response>>

\* lines 125-139: the fetch of the active technicians, the release, the 503,
\* the shortlist and the creation of one task per shortlisted candidate; the
\* store returns the rows in one of the given orders
TechQueryWith(c, orders) ==
  /\ pc[c] = "techs"
  /\ conns' = [conns EXCEPT ![c] = conns[c] - 1]
  /\ \/ /\ Finish(c, StoreReadFailure)
        /\ UNCHANGED <<tech_rows, shortlist, tasks>>
     \/ /\ ActiveIds = {}
        /\ Finish(c, NoTechniciansAvailable)
        /\ UNCHANGED <<tech_rows, shortlist, tasks>>
     \/ /\ ActiveIds # {}
        /\ \E order \in orders :
             /\ tech_rows' = [tech_rows EXCEPT ![c] = RowsOf(order)]
             /\ shortlist' = [shortlist EXCEPT ![c] =
                                Shortlist(customer[c][1], RowsOf(order))]
        /\ tasks' = [tasks EXCEPT ![c] = [i \in 1..Len(shortlist'[c]) |-> NewTask]]
        /\ pc' = [pc EXCEPT ![c] = "resolving"]
        /\ UNCHANGED response
  /\ UNCHANGED <<store, cust_id, customer, best_id, best_dist>>

\* mutant: the resolution runs inside the async with of line 124, so the
\* connection of the technician query is kept
TechQuery_HoldsConn(c) ==
  /\ pc[c] = "techs"
  /\ \/ /\ Finish(c, StoreReadFailure)
        /\ conns' = [conns EXCEPT ![c] = conns[c] - 1]
        /\ UNCHANGED <<tech_rows, shortlist, tasks>>
     \/ /\ ActiveIds = {}
        /\ Finish(c, NoTechniciansAvailable)
        /\ conns' = [conns EXCEPT ![c] = conns[c] - 1]
        /\ UNCHANGED <<tech_rows, shortlist, tasks>>
     \/ /\ ActiveIds # {}
        /\ \E order \in Perms(ActiveIds) :
             /\ tech_rows' = [tech_rows EXCEPT ![c] = RowsOf(order)]
             /\ shortlist' = [shortlist EXCEPT ![c] =
                                Shortlist(customer[c][1], RowsOf(order))]
        /\ tasks' = [tasks EXCEPT ![c] = [i \in 1..Len(shortlist'[c]) |-> NewTask]]
        /\ pc' = [pc EXCEPT ![c] = "resolving"]
        /\ UNCHANGED <<response, conns>>
  /\ UNCHANGED <<store, cust_id, customer, best_id, best_dist>>

\* lines 125-139 with the rows in any order: the query has no ORDER BY
TechQuery(c) == TechQueryWith(c, Perms(ActiveIds))

\* line 92: a task runs its next attempt (the first, or the one after a backoff)
SendAttempt(c, i) ==
  /\ pc[c] = "resolving"
  /\ i \in 1..Len(tasks[c])
  /\ tasks[c][i].st \in {"ready", "sleeping"}
  /\ tasks' = [tasks EXCEPT ![c][i] =
       [st |-> "inflight", attempt_number |-> tasks[c][i].attempt_number + 1,
        wait |-> 0, result |-> 0]]
  /\ UNCHANGED <<store, pc, cust_id, customer, tech_rows, shortlist, best_id,
                 best_dist, conns, response>>

\* lines 92-102 under @retry: the attempt in flight ends with resp
AttemptReturns(c, i, resp) ==
  /\ pc[c] = "resolving"
  /\ i \in 1..Len(tasks[c])
  /\ tasks[c][i].st = "inflight"
  /\ LET t == tasks[c][i]
         r == Attempt(resp)
     IN  tasks' = [tasks EXCEPT ![c][i] =
           IF ~r.raised
             THEN [st |-> "returned", attempt_number |-> t.attempt_number,
                   wait |-> 0, result |-> r.value]
           ELSE IF StopAfterAttempt(t.attempt_number)
             THEN [st |-> "raised", attempt_number |-> t.attempt_number,
                   wait |-> 0, result |-> 0]
           ELSE [st |-> "sleeping", attempt_number |-> t.attempt_number,
                 wait |-> WaitExponential(t.attempt_number), result |-> 0]]
  /\ UNCHANGED <<store, pc, cust_id, customer, tech_rows, shortlist, best_id,
                 best_dist, conns, response>>

\* lines 140-154: asyncio.wait returns, the loop picks, the 503
Decide(c) ==
  /\ pc[c] = "resolving"
  /\ WaitReturns(tasks[c])
  /\ LET p == Pick(tasks[c], shortlist[c])
     IN  /\ best_id' = [best_id EXCEPT ![c] = p.best_id]
         /\ best_dist' = [best_dist EXCEPT ![c] = p.best_dist]
         /\ IF p.best_id = None
              THEN Finish(c, NoResolvableTechnician)
              ELSE /\ pc' = [pc EXCEPT ![c] = "picked"]
                   /\ UNCHANGED response
  /\ UNCHANGED <<store, cust_id, customer, tech_rows, shortlist, tasks, conns>>

\* line 156: the third pool.acquire()
AcquireForInsert(c) ==
  /\ pc[c] = "picked"
  /\ pc' = [pc EXCEPT ![c] = "insert"]
  /\ conns' = [conns EXCEPT ![c] = conns[c] + 1]
  /\ UNCHANGED <<store, cust_id, customer, tech_rows, shortlist, tasks, best_id,
                 best_dist, response>>

\* mutant: the geometric estimate of the first candidate is stored as distance
NewRow_Estimate(c, t) ==
  [id |-> id_seq + 1, cust_id |-> cust_id[c], tech_id |-> best_id[c],
   distance_km |-> shortlist[c][1].est, assigned_at |-> t]

\* the row INSERT ... RETURNING id, assigned_at adds: id from the SERIAL
\* sequence, assigned_at from DEFAULT now() (lines 79-85)
NewRow(c, t) ==
  [id |-> id_seq + 1, cust_id |-> cust_id[c], tech_id |-> best_id[c],
   distance_km |-> best_dist[c], assigned_at |-> t]

\* mutant: the handler raises after the row has been stored
Insert_RowThenRaise(c) ==
  /\ pc[c] = "insert"
  /\ conns' = [conns EXCEPT ![c] = conns[c] - 1]
  /\ \E t \in {now, now + 1} :
       /\ now' = t
       /\ id_seq' = id_seq + 1
       /\ assignments' = Append(assignments, NewRow(c, t))
       /\ \/ Finish(c, Assignment(NewRow(c, t)))
          \/ Finish(c, PersistenceFailure)
  /\ UNCHANGED <<customers, technicians, cust_id, customer, tech_rows, shortlist,
                 tasks, best_id, best_dist>>

\* mutant: an upsert keyed by customer: the customer's earlier row is replaced
Insert_Upsert(c) ==
  /\ pc[c] = "insert"
  /\ conns' = [conns EXCEPT ![c] = conns[c] - 1]
  /\ \E t \in {now, now + 1} :
       /\ now' = t
       /\ id_seq' = id_seq + 1
       /\ assignments' =
            IF \E k \in 1..Len(assignments) : assignments[k].cust_id = cust_id[c]
              THEN [k \in 1..Len(assignments) |->
                      IF assignments[k].cust_id = cust_id[c]
                        THEN NewRow(c, t) ELSE assignments[k]]
              ELSE Append(assignments, NewRow(c, t))
       /\ Finish(c, Assignment(NewRow(c, t)))
  /\ UNCHANGED <<customers, technicians, cust_id, customer, tech_rows, shortlist,
                 tasks, best_id, best_dist>>

\* mutant: public.assignments with a UNIQUE constraint on cust_id
Insert_UniqueCustomer(c) ==
  /\ pc[c] = "insert"
  /\ conns' = [conns EXCEPT ![c] = conns[c] - 1]
  /\ \/ /\ \A k \in 1..Len(assignments) : assignments[k].cust_id # cust_id[c]
        /\ \E t \in {now, now + 1} :
             /\ now' = t
             /\ id_seq' = id_seq + 1
             /\ assignments' = Append(assignments, NewRow(c, t))
             /\ Finish(c, Assignment(NewRow(c, t)))
     \/ /\ Finish(c, PersistenceFailure)
        /\ id_seq' = id_seq + 1
        /\ UNCHANGED <<assignments, now>>
  /\ UNCHANGED <<customers, technicians, cust_id, customer, tech_rows, shortlist,
                 tasks, best_id, best_dist>>

\* lines 157-158: the insert, the release and the returned AssignmentModel
Insert(c) ==
  /\ pc[c] = "insert"
  /\ conns' = [conns EXCEPT ![c] = conns[c] - 1]
  /\ \/ \E t \in {now, now + 1} :
          /\ now' = t
          /\ id_seq' = id_seq + 1
          /\ assignments' = Append(assignments, NewRow(c, t))
          /\ Finish(c, Assignment([id |-> NewRow(c, t).id, cust_id |-> cust_id[c],
                                   tech_id |-> best_id[c], distance_km |-> best_dist[c],
                                   assigned_at |-> NewRow(c, t).assigned_at]))
     \/ /\ Finish(c, PersistenceFailure)
        /\ \E n \in {id_seq, id_seq + 1} : id_seq' = n
        /\ UNCHANGED <<assignments, now>>
  /\ UNCHANGED <<customers, technicians, cust_id, customer, tech_rows, shortlist,
                 tasks, best_id, best_dist>>

Next ==
  \E c \in Calls :
    \/ \E id \in CustIds : DispatchOne(c, id)
    \/ Lookup(c)
    \/ AcquireForTechs(c)
    \/ TechQuery(c)
    \/ \E i \in 1..TOP_K : SendAttempt(c, i)
    \/ \E i \in 1..TOP_K, resp \in Responses : AttemptReturns(c, i, resp)
    \/ Decide(c)
    \/ AcquireForInsert(c)
    \/ Insert(c)

Spec == Init /\ [][Next]_vars

SpecCalls == InitManyCalls /\ [][Next]_vars

\* the active technicians in the order of their ids
ById == CHOOSE order \in Perms(ActiveIds) :
          \A i, j \in 1..Len(order) : i < j => order[i] < order[j]

\* the routing service fails, or reports one and the same distance
FleetResponses ==
  {r \in Responses : Attempt(r).raised \/ Attempt(r).value = 1}

\* a step of call c after its arrival: a store operation returns, a routing
\* attempt is sent or ends (timeout=15 ends it at the latest), a backoff sleep
\* is over, or the handler runs on
Progress(c) ==
  \/ Lookup(c)
  \/ AcquireForTechs(c)
  \/ TechQuery(c)
  \/ \E i \in 1..TOP_K : SendAttempt(c, i)
  \/ \E i \in 1..TOP_K, resp \in FleetResponses : AttemptReturns(c, i, resp)
  \/ Decide(c)
  \/ AcquireForInsert(c)
  \/ Insert(c)

NextLive ==
  \E c \in Calls :
    \/ \E id \in CustIds : DispatchOne(c, id)
    \/ Progress(c)

\* the event loop runs a call that can take a step; the store and the routing
\* service answer or time out
SpecLive == Init /\ [][NextLive]_vars /\ \A c \in Calls : WF_vars(Progress(c))

\* the call up to the shortlist and the creation of its tasks
NextShortlist ==
  \E c \in Calls :
    \/ \E id \in CustIds : DispatchOne(c, id)
    \/ Lookup(c)
    \/ AcquireForTechs(c)
    \/ TechQuery(c)

SpecShortlist == InitShortlist /\ [][NextShortlist]_vars

\* one dispatch call, a table of up to MaxRows active technicians, the
\* technician with the greatest id the nearest
InitFleet ==
  /\ InitStore
  /\ \E n \in 0..MaxRows :
       technicians = [i \in 1..n |->
          [latitude |-> 0, longitude |-> n + 1 - i, is_active |-> TRUE]]
  /\ InitCalls(1)

NextFleet ==
  \E c \in Calls :
    \/ \E id \in CustIds : DispatchOne(c, id)
    \/ Lookup(c)
    \/ AcquireForTechs(c)
    \/ TechQueryWith(c, {ById})
    \/ \E i \in 1..TOP_K : SendAttempt(c, i)
    \/ \E i \in 1..TOP_K, resp \in FleetResponses : AttemptReturns(c, i, resp)
    \/ Decide(c)
    \/ AcquireForInsert(c)
    \/ Insert(c)

SpecFleet == InitFleet /\ [][NextFleet]_vars

(* ------------------------ vocabulary of the claims --------------------- *)
Kind(c) == IF pc[c] = "done" THEN response[c].kind ELSE ""

\* asyncio.wait has returned and the loop of lines 141-151 has run
Decided(c) ==
  \/ pc[c] \in {"picked", "insert"}
  \/ Kind(c) \in {"NoResolvableTechnician", "Assignment", "PersistenceFailure"}

Returned(c) == {i \in 1..Len(tasks[c]) : tasks[c][i].st = "returned"}
Failed(c) == {i \in 1..Len(tasks[c]) : tasks[c][i].st = "raised"}

\* position i holds the least distance among the returned tasks of c, and is
\* the earliest position that does
IsBest(c, i) ==
  /\ i \in Returned(c)
  /\ \A j \in Returned(c) :
       /\ tasks[c][i].result <= tasks[c][j].result
       /\ tasks[c][j].result = tasks[c][i].result => i <= j

(* ------------------------------- claims ------------------------------- *)
\* C1: whenever the decision has been made over at least one returned
\* distance, best_id is the technician of the returned task with the least
\* distance, the earliest in the shortlist among equals.
C1_MinimumIsChosen ==
  \A c \in Calls :
    (Decided(c) /\ Returned(c) # {}) =>
      \E i \in Returned(c) :
        /\ IsBest(c, i)
        /\ best_id[c] = shortlist[c][i].tech_id
        /\ best_dist[c] = tasks[c][i].result

\* the same, for the calls in which some returned distance is finite
C1_FiniteMinimumIsChosen ==
  \A c \in Calls :
    (Decided(c) /\ \E k \in Returned(c) : tasks[c][k].result < Inf) =>
      \E i \in Returned(c) :
        /\ IsBest(c, i)
        /\ best_id[c] = shortlist[c][i].tech_id
        /\ best_dist[c] = tasks[c][i].result

\* a step of call c
StepOf(c) == pc'[c] # pc[c] \/ tasks'[c] # tasks[c]

\* every task of c was launched and ended raising (retries exhausted)
AllFailed(c) == tasks[c] # <<>> /\ Failed(c) = 1..Len(tasks[c])

\* C2: when every resolver invocation of a call has failed, the call ends with
\* NoResolvableTechnician (it never reaches the insert), and no step of the
\* call from then on changes the stored assignments or draws an id.
C2_AllFailedNoAssignment ==
  /\ [](\A c \in Calls :
          (AllFailed(c) /\ pc[c] # "resolving") =>
             /\ pc[c] = "done"
             /\ response[c].kind = "NoResolvableTechnician"
             /\ response[c].status_code = 503
             /\ response[c].body = <<>>
             /\ best_id[c] = None)
  /\ [][\A c \in Calls :
          (AllFailed(c) /\ StepOf(c)) =>
             /\ assignments' = assignments
             /\ id_seq' = id_seq]_vars

C2_Witness ==
  \E c \in Calls :
    /\ Len(tasks[c]) = MaxTechs
    /\ AllFailed(c)
    /\ Kind(c) = "NoResolvableTechnician"
    /\ assignments = <<>>

\* the calls that were answered with an Assignment
Succeeded == {c \in Calls : Kind(c) = "Assignment"}

\* C3: the table holds exactly one row per successful call and none for any
\* other call; row ids are pairwise different; the row of a successful call
\* carries the call's customer id and the picked technician and distance, and
\* the returned Assignment carries the same values.
C3_OneAssignmentPerSuccess ==
  /\ [](/\ Len(assignments) = Cardinality(Succeeded)
        /\ \A k, l \in 1..Len(assignments) :
             assignments[k].id = assignments[l].id => k = l
        /\ \A c \in Succeeded :
             LET a == response[c].body[1]
                 p == Pick(tasks[c], shortlist[c])
             IN  /\ Cardinality({k \in 1..Len(assignments) :
                                   assignments[k].id = a.id}) = 1
                 /\ \E k \in 1..Len(assignments) : assignments[k] = a
                 /\ a.cust_id = cust_id[c]
                 /\ a.tech_id = p.best_id
                 /\ a.distance_km = p.best_dist
                 /\ \E i \in Returned(c) :
                      /\ shortlist[c][i].tech_id = a.tech_id
                      /\ tasks[c][i].result = a.distance_km)
  /\ [][/\ Len(assignments') <= Len(assignments) + 1
        /\ Len(assignments') = Len(assignments) + 1 =>
             \A k \in 1..Len(assignments) :
               assignments'[Len(assignments')].id # assignments[k].id]_vars

C3_Witness ==
  /\ Cardinality(Succeeded) = 2
  /\ Len(assignments) = 2
  /\ \E c \in Calls : Kind(c) = "Assignment" /\ response[c].body[1].id = 2

\* C4: once the decision has been made with at least one returned task, the
\* call is not answered NoResolvableTechnician: it goes on to the insert with
\* a technician whose task returned, never one whose task raised; a single
\* returned task is the one selected, wherever it stands in the shortlist.
C4_PartialFailureTolerated ==
  \A c \in Calls :
    (Decided(c) /\ Returned(c) # {}) =>
      /\ Kind(c) # "NoResolvableTechnician"
      /\ \E i \in Returned(c) : best_id[c] = shortlist[c][i].tech_id
      /\ \A i \in Returned(c) :
           Returned(c) = {i} => best_id[c] = shortlist[c][i].tech_id

\* the same, for the calls in which some returned distance is finite
C4_FinitePartialFailureTolerated ==
  \A c \in Calls :
    (Decided(c) /\ \E k \in Returned(c) : tasks[c][k].result < Inf) =>
      /\ Kind(c) # "NoResolvableTechnician"
      /\ \E i \in Returned(c) : best_id[c] = shortlist[c][i].tech_id
      /\ \A i \in Returned(c) :
           Returned(c) = {i} => best_id[c] = shortlist[c][i].tech_id

\* C5: a resolver invocation makes at most 3 attempts; it starts an attempt
\* only as its first or after a failed one (never after a returned one), one
\* at a time; it raises only out of its 3rd attempt.  So a call answered
\* NoResolvableTechnician with no returned task has made exactly 3 attempts
\* for each candidate.
C5_AtMostThreeAttempts ==
  /\ [](\A c \in Calls : \A i \in 1..Len(tasks[c]) :
          LET t == tasks[c][i]
          IN  /\ t.attempt_number <= 3
              /\ t.st = "raised" => t.attempt_number = 3
              /\ t.st = "sleeping" => t.attempt_number \in {1, 2}
              /\ t.st \in {"inflight", "returned"} => t.attempt_number \in 1..3)
  /\ [](\A c \in Calls :
          (Kind(c) = "NoResolvableTechnician" /\ Returned(c) = {}) =>
             \A i \in 1..Len(tasks[c]) : tasks[c][i].attempt_number = 3)
  /\ [][\A c \in Calls : \A i \in 1..Len(tasks[c]) :
          LET t == tasks[c][i]
              u == tasks'[c][i]
          IN  /\ u.attempt_number # t.attempt_number =>
                   /\ u.attempt_number = t.attempt_number + 1
                   /\ t.st \in {"ready", "sleeping"}
                   /\ u.st = "inflight"
              /\ t.st \in {"returned", "raised"} => u = t
              /\ (u.st = "raised" /\ t.st # "raised") =>
                   t.st = "inflight" /\ t.attempt_number = 3
              /\ (u.st = "sleeping" /\ t.st # "sleeping") => t.st = "inflight"]_vars

C5_Witness ==
  \E c \in Calls :
    /\ Kind(c) = "NoResolvableTechnician"
    /\ Len(tasks[c]) = MaxTechs
    /\ \A i \in 1..Len(tasks[c]) :
         tasks[c][i].st = "raised" /\ tasks[c][i].attempt_number = 3

\* C6: the decision is made, and the insert reached, only when every task of
\* the call has completed (returned or raised); and the step in which a task
\* raises leaves every other task of the call as it was.
C6_CompleteJoin ==
  /\ [](\A c \in Calls :
          Decided(c) => \A i \in 1..Len(tasks[c]) :
                          tasks[c][i].st \in {"returned", "raised"})
  /\ [][\A c \in Calls :
          Len(assignments') > Len(assignments) /\ pc[c] = "insert" /\ pc'[c] = "done" =>
            \A i \in 1..Len(tasks[c]) : tasks[c][i].st \in {"returned", "raised"}]_vars
  /\ [][\A c \in Calls : \A i, j \in 1..Len(tasks[c]) :
          (i # j /\ tasks'[c][i].st = "raised" /\ tasks[c][i].st # "raised") =>
             tasks'[c][j] = tasks[c][j]]_vars

\* a partial failure: the first task raised, the second returned on its third
\* attempt, and only then was the decision made
C6_Witness ==
  \E c \in Calls :
    /\ pc[c] = "picked"
    /\ Len(tasks[c]) = 2
    /\ tasks[c][1].st = "raised"
    /\ tasks[c][2].st = "returned"
    /\ tasks[c][2].attempt_number = 3

\* the call has left the idle state: its request has arrived
Arrived(c) == pc[c] \notin {"idle", "unused"}

\* C7: a call for a customer id without a row is, once its lookup has
\* returned, answered CustomerNotFound (404); at no point does it start a
\* resolver task or an attempt, acquire a connection for another query, or
\* write to the store.  (Spec runs one call: the store stays as it started.)
C7_UnknownCustomer ==
  \A c \in Calls :
    (Arrived(c) /\ cust_id[c] \notin DOMAIN customers) =>
      /\ pc[c] \in {"lookup", "done"}
      /\ pc[c] = "done" =>
           \/ /\ response[c].kind = "CustomerNotFound"
              /\ response[c].status_code = 404
           \/ response[c].kind = "StoreReadFailure"
      /\ tasks[c] = <<>>
      /\ shortlist[c] = <<>>
      /\ tech_rows[c] = <<>>
      /\ assignments = <<>>
      /\ id_seq = 0

C7_Witness ==
  \E c \in Calls :
    /\ cust_id[c] = 2
    /\ Kind(c) = "CustomerNotFound"
    /\ \E t \in DOMAIN technicians : technicians[t].is_active

\* C8: a call whose customer was found and whose technician query returned no
\* row is answered NoTechniciansAvailable (503); it starts no resolver task
\* and no attempt, and writes nothing to the store.
C8_NoTechnicians ==
  \A c \in Calls :
    (customer[c] # <<>> /\ \A t \in DOMAIN technicians : ~technicians[t].is_active) =>
      /\ pc[c] \in {"found", "techs", "done"}
      /\ pc[c] = "done" =>
           \/ /\ response[c].kind = "NoTechniciansAvailable"
              /\ response[c].status_code = 503
           \/ response[c].kind = "StoreReadFailure"
      /\ tasks[c] = <<>>
      /\ shortlist[c] = <<>>
      /\ assignments = <<>>
      /\ id_seq = 0

C8_Witness ==
  \E c \in Calls :
    /\ customer[c] # <<>>
    /\ Kind(c) = "NoTechniciansAvailable"
    /\ DOMAIN technicians # {}

\* the geometric estimate of technician t for the customer of call c
EstOf(c, t) ==
  (1111949 * Abs(technicians[t].longitude - customer[c][1].longitude)) \div 10000

\* the technicians call c shortlisted
Shortlisted(c) == {shortlist[c][i].tech_id : i \in 1..Len(shortlist[c])}

\* C9: once the technician query of a call has returned the N active
\* technicians, the shortlist has exactly min(N, 5) entries, one per
\* technician, each with that technician's estimate, in ascending order of
\* estimate, and no technician left out has a smaller estimate than a
\* shortlisted one.
C9_Shortlist ==
  \A c \in Calls :
    LET Active == {t \in DOMAIN technicians : technicians[t].is_active}
        N == Cardinality(Active)
    IN  (pc[c] = "resolving" \/ Kind(c) = "NoTechniciansAvailable") =>
          /\ Len(tech_rows[c]) = (IF pc[c] = "resolving" THEN N ELSE 0)
          /\ Len(shortlist[c]) = (IF N < 5 THEN N ELSE 5)
          /\ Shortlisted(c) \subseteq Active
          /\ Cardinality(Shortlisted(c)) = Len(shortlist[c])
          /\ \A i \in 1..Len(shortlist[c]) :
               shortlist[c][i].est = EstOf(c, shortlist[c][i].tech_id)
          /\ \A i, j \in 1..Len(shortlist[c]) :
               i < j => shortlist[c][i].est <= shortlist[c][j].est
          /\ \A t \in Active \ Shortlisted(c) :
               \A i \in 1..Len(shortlist[c]) : shortlist[c][i].est <= EstOf(c, t)
          /\ Len(tasks[c]) = Len(shortlist[c])

\* more than 5 active technicians at both distances, the nearer ones fewer
\* than 5: the shortlist is cut inside the group of the farther ones
C9_Witness ==
  \E c \in Calls :
    /\ pc[c] = "resolving"
    /\ Cardinality({t \in DOMAIN technicians : technicians[t].is_active}) = MaxRows
    /\ Len(shortlist[c]) = 5
    /\ shortlist[c][1].est < shortlist[c][5].est
    /\ shortlist[c][1].tech_id > shortlist[c][2].tech_id
    /\ \E t \in DOMAIN technicians :
         t \notin Shortlisted(c) /\ EstOf(c, t) = shortlist[c][5].est

AllKinds ==
  {"Assignment", "CustomerNotFound", "NoTechniciansAvailable",
   "NoResolvableTechnician", "PersistenceFailure"}

\* C10 as stated: every finished call ends in an Assignment or in one of
\* CustomerNotFound, NoTechniciansAvailable, NoResolvableTechnician,
\* PersistenceFailure, and in nothing else.
C10_OnlyFiveOutcomes ==
  \A c \in Calls : pc[c] = "done" => response[c].kind \in AllKinds

\* C10 amended: every finished call ends in exactly one of Assignment,
\* CustomerNotFound, NoTechniciansAvailable, NoResolvableTechnician,
\* PersistenceFailure or a store read failure (the customer lookup or the
\* technician query raising, before any resolver task exists); a task that
\* raised is never the outcome of the call: with a raised task the call ends
\* in an Assignment, PersistenceFailure or NoResolvableTechnician.
C10_SixOutcomes ==
  \A c \in Calls :
    /\ pc[c] = "done" <=> response[c] # <<>>
    /\ pc[c] = "done" =>
         /\ response[c].kind \in AllKinds \cup {"StoreReadFailure"}
         /\ response[c].kind = "StoreReadFailure" =>
              /\ tasks[c] = <<>>
              /\ response[c].status_code = 500
         /\ response[c].kind = "PersistenceFailure" => best_id[c] # None
         /\ response[c].kind = "Assignment" <=> response[c].body # <<>>
         /\ Failed(c) # {} =>
              response[c].kind \in
                {"Assignment", "PersistenceFailure", "NoResolvableTechnician"}

\* the technician query raised after the customer was found
C10_Witness ==
  \E c \in Calls :
    /\ Kind(c) = "StoreReadFailure"
    /\ customer[c] # <<>>

\* what dispatch_one raises for the four call-level error kinds
ErrorResponses ==
  {CustomerNotFound, NoTechniciansAvailable, NoResolvableTechnician, PersistenceFailure}

\* C11 as stated: the status a call ends with for one of the four error kinds
\* is the status of no other error kind.
C11_DistinctStatuses ==
  \A c \in Calls :
    (pc[c] = "done" /\ response[c] \in ErrorResponses) =>
      \A r \in ErrorResponses :
        r.kind # response[c].kind => r.status_code # response[c].status_code

\* C11 amended: the same kind always ends with the same status:
\* CustomerNotFound 404, NoTechniciansAvailable 503, NoResolvableTechnician
\* 503, PersistenceFailure 500 (the uncaught exception).  The two 503 differ
\* in their detail only; 404, 503 and 500 tell bad input, no capacity and a
\* store failure apart.
C11_StableStatuses ==
  \A c \in Calls :
    pc[c] = "done" =>
      LET r == response[c]
      IN  /\ r.kind = "CustomerNotFound" => r.status_code = 404
          /\ r.kind = "NoTechniciansAvailable" =>
               r.status_code = 503 /\ r.detail = "No technicians available"
          /\ r.kind = "NoResolvableTechnician" =>
               r.status_code = 503 /\ r.detail # "No technicians available"
          /\ r.kind = "PersistenceFailure" => r.status_code = 500
          /\ r.kind = "Assignment" <=> r.status_code = 200

C11_Witness ==
  \E c \in Calls :
    /\ Kind(c) = "NoTechniciansAvailable"
    /\ response[c].status_code = NoResolvableTechnician.status_code

\* C12: the step that ends the insert either answers PersistenceFailure and
\* leaves the table as it was, or answers the Assignment and appends exactly
\* its complete row; it is the last step of the call (a finished call changes
\* nothing any more), so the table holds one row per call answered with an
\* Assignment and none for a call answered PersistenceFailure.
C12_InsertIsLastAndAtomic ==
  /\ [](/\ Len(assignments) = Cardinality(Succeeded)
        /\ \A c \in Calls : Kind(c) = "PersistenceFailure" =>
             /\ response[c].body = <<>>
             /\ best_id[c] # None
             /\ Cardinality({d \in Calls : Arrived(d)}) > Len(assignments))
  /\ [][\A c \in Calls :
          (pc[c] = "insert" /\ pc'[c] # "insert") =>
             /\ pc'[c] = "done"
             /\ \/ /\ response'[c].kind = "PersistenceFailure"
                   /\ assignments' = assignments
                \/ /\ response'[c].kind = "Assignment"
                   /\ assignments' = Append(assignments, response'[c].body[1])
                   /\ response'[c].body[1].cust_id = cust_id[c]
                   /\ response'[c].body[1].tech_id = best_id[c]
                   /\ response'[c].body[1].distance_km = best_dist[c]]_vars
  /\ [][\A c \in Calls :
          pc[c] = "done" => pc'[c] = "done" /\ response'[c] = response[c]]_vars
  /\ [][assignments' # assignments =>
          \E c \in Calls : pc[c] = "insert" /\ pc'[c] = "done"]_vars

\* one call failed at its insert while the other stored its row
C12_Witness ==
  \E c, d \in Calls :
    /\ Kind(c) = "PersistenceFailure"
    /\ Kind(d) = "Assignment"
    /\ Len(assignments) = 1
    /\ assignments[1] = response[d].body[1]

\* C13: no step removes or changes a stored assignment (its id, customer,
\* technician, distance and timestamp stay as inserted, at the same place in
\* the table), and no step changes a customer or a technician row.
C13_AppendOnly ==
  /\ [][/\ Len(assignments') >= Len(assignments)
        /\ \A k \in 1..Len(assignments) : assignments'[k] = assignments[k]]_vars
  /\ [][customers' = customers /\ technicians' = technicians]_vars

\* two rows for the same customer, the second inserted while the first was stored
C13_Witness ==
  /\ Len(assignments) = 2
  /\ assignments[1].cust_id = assignments[2].cust_id
  /\ assignments[1].id < assignments[2].id
  /\ \A c \in Calls : pc[c] = "done"

\* everything call c holds
Local(c) ==
  <<pc[c], cust_id[c], customer[c], tech_rows[c], shortlist[c], tasks[c],
    best_id[c], best_dist[c], conns[c], response[c]>>

\* C14: a call at its insert can always store its row, whatever the table
\* already holds for its customer or technician (nothing is reserved); every
\* running call always has a step to take, whatever the other calls do; a
\* step changes the state of one call only; and the technician table is the
\* same for every call.  So two concurrent calls for one customer can both
\* end with an Assignment, of the same technician.
C14_NoReservation ==
  /\ [](\A c \in Calls :
          pc[c] = "insert" => ENABLED (Insert(c) /\ response'[c].kind = "Assignment"))
  /\ [](\A c \in Calls :
          (Arrived(c) /\ pc[c] # "done") =>
             ENABLED Progress(c))
  /\ [][\A c, d \in Calls :
          (c # d /\ Local(d)' # Local(d)) => Local(c)' = Local(c)]_vars
  /\ [][technicians' = technicians]_vars

\* both calls stored a row for the same customer and technician, call 2 first
C14_Witness ==
  /\ Len(assignments) = 2
  /\ Kind(1) = "Assignment" /\ Kind(2) = "Assignment"
  /\ cust_id[1] = cust_id[2]
  /\ response[1].body[1].tech_id = response[2].body[1].tech_id
  /\ response[2].body[1].id = 1
  /\ response[1].body[1].id = 2

\* the returned tasks of c with a finite distance
Finite(c) == {i \in Returned(c) : tasks[c][i].result < Inf}

\* C15: once the decision is made, the result is determined by the shortlist
\* and the outcome held by each task at its own position, however the tasks
\* interleaved: with no finite returned distance the call is answered
\* NoResolvableTechnician; otherwise the result is the technician at the
\* earliest position holding the least distance, with that distance.
C15_ResultByPosition ==
  \A c \in Calls :
    Decided(c) =>
      IF Finite(c) = {}
        THEN /\ best_id[c] = None
             /\ Kind(c) = "NoResolvableTechnician"
        ELSE /\ Kind(c) # "NoResolvableTechnician"
             /\ \E i \in Finite(c) :
                  /\ \A j \in Finite(c) :
                       \/ tasks[c][i].result < tasks[c][j].result
                       \/ tasks[c][i].result = tasks[c][j].result /\ i <= j
                  /\ best_id[c] = shortlist[c][i].tech_id
                  /\ best_dist[c] = tasks[c][i].result

\* the second position holds the strictly smaller distance and its technician,
\* the one with the smaller id, is the result; the first task took more
\* attempts than the second
C15_Witness ==
  \E c \in Calls :
    /\ pc[c] = "picked"
    /\ Len(tasks[c]) = 2
    /\ tasks[c][1].st = "returned" /\ tasks[c][2].st = "returned"
    /\ tasks[c][2].result < tasks[c][1].result
    /\ tasks[c][1].result < Inf
    /\ tasks[c][1].attempt_number > tasks[c][2].attempt_number
    /\ shortlist[c][2].tech_id < shortlist[c][1].tech_id
    /\ best_id[c] = shortlist[c][2].tech_id

\* C16: a call holds at most one pool connection, and holds it exactly while
\* it stands at the customer lookup, the technician query or the insert; it
\* holds none while its tasks resolve, in particular none while an attempt is
\* in flight or a task sleeps in its backoff; a step never keeps a connection
\* from one query to the next.
C16_NoConnectionWhileResolving ==
  /\ [](\A c \in Calls :
          /\ conns[c] \in {0, 1}
          /\ conns[c] = 1 <=> pc[c] \in {"lookup", "techs", "insert"}
          /\ pc[c] = "resolving" => conns[c] = 0
          /\ (\E i \in 1..Len(tasks[c]) : tasks[c][i].st \in {"inflight", "sleeping"})
               => conns[c] = 0)
  /\ [][\A c \in Calls :
          (conns[c] = 1 /\ pc'[c] # pc[c]) => conns'[c] = 0]_vars
  /\ [][\A c \in Calls :
          tasks'[c] # tasks[c] => conns[c] = 0 \/ pc[c] = "techs"]_vars

\* one attempt in flight and one task in its backoff, no connection held
C16_Witness ==
  \E c \in Calls :
    /\ pc[c] = "resolving"
    /\ Len(tasks[c]) = 2
    /\ tasks[c][1].st = "inflight"
    /\ tasks[c][2].st = "sleeping"
    /\ tasks[c][2].wait = 2
    /\ conns[c] = 0

\* the attempts of call c in flight
InFlight(c) == {i \in 1..Len(tasks[c]) : tasks[c][i].st = "inflight"}

\* C17: at most 5 attempts of a call are in flight at once, whatever the
\* number of active technicians: the call has min(N, 5) tasks from the
\* creation of its tasks on, a task has one attempt in flight at most, and an
\* attempt starts only in a task that has none in flight.
C17_AtMostFiveInFlight ==
  /\ [](\A c \in Calls :
          /\ Cardinality(InFlight(c)) <= 5
          /\ Len(tasks[c]) <= 5
          /\ pc[c] = "resolving" =>
               Len(tasks[c]) = (IF Cardinality(DOMAIN technicians) < 5
                                  THEN Cardinality(DOMAIN technicians) ELSE 5))
  /\ [][\A c \in Calls :
          /\ tasks[c] # <<>> => Len(tasks'[c]) = Len(tasks[c])
          /\ \A i \in 1..Len(tasks[c]) :
               (tasks'[c][i] # tasks[c][i] /\ tasks'[c][i].st = "inflight") =>
                  /\ tasks[c][i].st \in {"ready", "sleeping"}
                  /\ \A j \in 1..Len(tasks[c]) : j # i => tasks'[c][j] = tasks[c][j]]_vars

\* more than 5 active technicians, 5 attempts in flight at once, third attempts
\* among them
C17_Witness ==
  \E c \in Calls :
    /\ Cardinality(DOMAIN technicians) = MaxRows
    /\ Cardinality(InFlight(c)) = 5
    /\ tasks[c][1].attempt_number = 3
    /\ tasks[c][5].attempt_number = 1

RECURSIVE AttemptsOf(_)
AttemptsOf(ts) ==
  IF ts = <<>> THEN 0 ELSE ts[1].attempt_number + AttemptsOf(Tail(ts))

\* the technicians call c read as active
ReadActive(c) == {tech_rows[c][i].technicianid : i \in 1..Len(tech_rows[c])}

\* C19: a call has one task per shortlisted candidate and no other, the
\* shortlisted are among the N technicians the call read as active, and a task
\* makes at most 3 attempts: at most 3 * min(N, 5) <= 15 attempts in all; a
\* picked technician, the technician of the stored row and of the returned
\* Assignment is in the call's shortlist.
C19_AttemptsOnlyForShortlisted ==
  \A c \in Calls :
    LET N == Len(tech_rows[c])
    IN  /\ Len(tasks[c]) = Len(shortlist[c])
        /\ Cardinality(Shortlisted(c)) = Len(shortlist[c])
        /\ Shortlisted(c) \subseteq ReadActive(c)
        /\ \A i \in 1..Len(tasks[c]) : tasks[c][i].attempt_number <= 3
        /\ AttemptsOf(tasks[c]) <= 3 * Min(N, 5)
        /\ AttemptsOf(tasks[c]) <= 15
        /\ best_id[c] # None => best_id[c] \in Shortlisted(c)
        /\ Kind(c) = "Assignment" =>
             /\ response[c].body[1].tech_id \in Shortlisted(c)
             /\ \E k \in 1..Len(assignments) :
                  /\ assignments[k].id = response[c].body[1].id
                  /\ assignments[k].tech_id \in Shortlisted(c)

\* six active technicians, fifteen attempts in all, the last of them the only
\* one that returned a distance: its technician is assigned
C19_Witness ==
  \E c \in Calls :
    /\ Len(tech_rows[c]) = MaxRows
    /\ AttemptsOf(tasks[c]) = 15
    /\ Kind(c) = "Assignment"
    /\ Cardinality(Failed(c)) = 4
    /\ response[c].body[1].tech_id \in Shortlisted(c)

\* the steps of dispatch_one in their order: the position a call may move to
\* from each position
StepOrder ==
  {<<"idle", "lookup">>, <<"lookup", "found">>, <<"found", "techs">>,
   <<"techs", "resolving">>, <<"resolving", "picked">>, <<"picked", "insert">>,
   <<"lookup", "done">>, <<"techs", "done">>, <<"resolving", "done">>,
   <<"insert", "done">>}

\* the outcomes with which a call may end at each step
EndsOf(step) ==
  CASE step = "lookup"    -> {"CustomerNotFound", "StoreReadFailure"}
    [] step = "techs"     -> {"NoTechniciansAvailable", "StoreReadFailure"}
    [] step = "resolving" -> {"NoResolvableTechnician"}
    [] step = "insert"    -> {"Assignment", "PersistenceFailure"}
    [] OTHER              -> {}

\* C20: a call moves through customer lookup, technician query (with the
\* shortlist), resolution, pick and insert in this order only, ends at a step
\* with an outcome of that step, and does nothing after it ended; for a customer
\* without a row the technician query is never made and, once the lookup has
\* returned a result, the outcome is CustomerNotFound even with no active
\* technician; no task exists and no attempt is made before both reads have
\* returned their rows.
C20_FixedStepOrder ==
  /\ [][\A c \in Calls :
          /\ pc'[c] # pc[c] =>
               /\ <<pc[c], pc'[c]>> \in StepOrder
               /\ pc'[c] = "done" => response'[c].kind \in EndsOf(pc[c])
          /\ pc[c] = "done" => Local(c)' = Local(c)
          /\ tasks'[c] # tasks[c] =>
               \/ pc[c] = "techs" /\ pc'[c] = "resolving"
               \/ pc[c] = "resolving" /\ pc'[c] = "resolving"]_vars
  /\ [](\A c \in Calls :
          /\ (Arrived(c) /\ FetchCustomer(cust_id[c]) = <<>>) =>
               /\ pc[c] \in {"lookup", "done"}
               /\ tech_rows[c] = <<>> /\ shortlist[c] = <<>> /\ tasks[c] = <<>>
               /\ Kind(c) # "NoTechniciansAvailable"
               /\ pc[c] = "done" => Kind(c) \in {"CustomerNotFound", "StoreReadFailure"}
          /\ tasks[c] # <<>> =>
               /\ customer[c] # <<>> /\ tech_rows[c] # <<>>
               /\ Len(shortlist[c]) = Len(tasks[c])
               /\ pc[c] \notin {"idle", "lookup", "found", "techs"}
          /\ pc[c] \in {"picked", "insert"} => WaitReturns(tasks[c])
          /\ Kind(c) \in {"Assignment", "PersistenceFailure", "NoResolvableTechnician"}
               => WaitReturns(tasks[c]) /\ tasks[c] # <<>>)

\* a call for a customer without a row, with no active technician in the
\* table, has ended with CustomerNotFound and never read the technicians
C20_Witness ==
  \E c \in Calls :
    /\ FetchCustomer(cust_id[c]) = <<>>
    /\ ActiveIds = {}
    /\ Kind(c) = "CustomerNotFound"
    /\ tech_rows[c] = <<>>

====
